---- MODULE Spec2Model ----
(***************************************************************************)
(* The draft page of the Mobile Legends draft assistant                    *)
(* (src/web-ui/app/draft/page.tsx, component DraftPage).                   *)
(*                                                                         *)
(* The state is the component's React state; every action is one event     *)
(* handler of the component, or one step of the asynchronous               *)
(* getDraftRecommendations (the click up to the await, the server's        *)
(* answer, the continuation after the await).  Strings are TLA+ strings;   *)
(* the JavaScript string and array methods the handlers use are the        *)
(* operators of the first section, computed character by character.        *)
(*                                                                         *)
(* Left out: activeTab and teamLaneInput (the handlers take the list and   *)
(* the lane as arguments; the only call site passes teamLaneInput, which   *)
(* is 'gold' or a member of LANES), the roles, lanes and damage types of   *)
(* a hero and the priority and reasons of a recommendation (rendered       *)
(* only), and a toast's id (Date.now(), used by the expiry timer only).    *)
(***************************************************************************)
EXTENDS Integers, Sequences, FiniteSets, TLC

VARIABLES heroes, banned, enemy, team, userLane, recommendations,
          teamAnalysis, loading, searchQuery, toasts, req

vars == <<heroes, banned, enemy, team, userLane, recommendations,
          teamAnalysis, loading, searchQuery, toasts, req>>

(***************************************************************************)
(* Bounds of the model.                                                    *)
(***************************************************************************)
\* Toasts on screen at once: a handler that shows a toast waits for room.
MaxToasts == 1

(***************************************************************************)
(* JavaScript string and array methods.                                    *)
(***************************************************************************)
\* String.prototype.startsWith
startsWith(s, p) == Len(p) <= Len(s) /\ SubSeq(s, 1, Len(p)) = p

\* String.prototype.endsWith
endsWith(s, p) == Len(p) <= Len(s) /\ SubSeq(s, Len(s) - Len(p) + 1, Len(s)) = p

\* Array.prototype.includes
includes(arr, x) == \E i \in 1..Len(arr) : arr[i] = x

\* String.prototype.includes
strIncludes(s, q) == \E i \in 1..(Len(s) + 1) :
                        i + Len(q) - 1 <= Len(s) /\ SubSeq(s, i, i + Len(q) - 1) = q

\* The lower-case form of one character
lowerChar(c) ==
  CASE c = "A" -> "a" [] c = "B" -> "b" [] c = "C" -> "c" [] c = "D" -> "d"
    [] c = "E" -> "e" [] c = "F" -> "f" [] c = "G" -> "g" [] c = "H" -> "h"
    [] c = "I" -> "i" [] c = "J" -> "j" [] c = "K" -> "k" [] c = "L" -> "l"
    [] c = "M" -> "m" [] c = "N" -> "n" [] c = "O" -> "o" [] c = "P" -> "p"
    [] c = "Q" -> "q" [] c = "R" -> "r" [] c = "S" -> "s" [] c = "T" -> "t"
    [] c = "U" -> "u" [] c = "V" -> "v" [] c = "W" -> "w" [] c = "X" -> "x"
    [] c = "Y" -> "y" [] c = "Z" -> "z" [] OTHER -> c

\* String.prototype.toLowerCase
RECURSIVE toLowerCase(_)
toLowerCase(s) ==
  IF s = "" THEN ""
  ELSE lowerChar(SubSeq(s, 1, 1)) \o toLowerCase(SubSeq(s, 2, Len(s)))

\* String.prototype.split with a one-character separator: the parts between
\* the separators, empty parts included. splitFrom reads s from position i
\* on, the part it is in having begun at position start.
RECURSIVE splitFrom(_, _, _, _)
splitFrom(s, sep, i, start) ==
  IF i > Len(s) THEN <<SubSeq(s, start, Len(s))>>
  ELSE IF SubSeq(s, i, i) = sep
       THEN <<SubSeq(s, start, i - 1)>> \o splitFrom(s, sep, i + 1, i + 1)
       ELSE splitFrom(s, sep, i + 1, start)

split(s, sep) == splitFrom(s, sep, 1, 1)

\* Array.prototype.join
RECURSIVE join(_, _)
join(arr, sep) ==
  IF arr = <<>> THEN ""
  ELSE IF Len(arr) = 1 THEN arr[1]
  ELSE arr[1] \o sep \o join(Tail(arr), sep)

\* The elements of an array
elements(arr) == {arr[i] : i \in 1..Len(arr)}

(***************************************************************************)
(* Constants of the page.                                                  *)
(***************************************************************************)
LANES == <<"gold", "jungle", "roam", "mid", "exp">>

\* useState<TeamAnalysis | null>(null)
Null == <<>>

(***************************************************************************)
(* The state after construction (the useState initial values).             *)
(***************************************************************************)
Init ==
  /\ heroes = <<>>
  /\ banned = <<>>
  /\ enemy = <<>>
  /\ team = <<>>
  /\ userLane = "gold"
  /\ recommendations = <<>>
  /\ teamAnalysis = Null
  /\ loading = FALSE
  /\ searchQuery = ""
  /\ toasts = <<>>
  /\ req = <<>>

(***************************************************************************)
(* Toasts.                                                                 *)
(***************************************************************************)
\* showToast: the toast is appended to the list
showToast(message, type) ==
  toasts' = Append(toasts, [message |-> message, type |-> type])

\* Room for one more toast
toastRoom == Len(toasts) < MaxToasts

\* The timer of showToast: three seconds later the toast is removed. All
\* timers run for the same time, so the oldest toast goes first.
toastExpire ==
  /\ toasts # <<>>
  /\ toasts' = Tail(toasts)
  /\ UNCHANGED <<heroes, banned, enemy, team, userLane, recommendations,
                 teamAnalysis, loading, searchQuery, req>>

(***************************************************************************)
(* The catalogue.                                                          *)
(***************************************************************************)
\* fetchHeroes, answered: the catalogue arrives once, after the mount
fetchHeroes(catalogue) ==
  /\ heroes = <<>>
  /\ heroes' = catalogue
  /\ UNCHANGED <<banned, enemy, team, userLane, recommendations,
                 teamAnalysis, loading, searchQuery, toasts, req>>

\* The search box
setSearchQuery(q) ==
  /\ searchQuery' = q
  /\ UNCHANGED <<heroes, banned, enemy, team, userLane, recommendations,
                 teamAnalysis, loading, toasts, req>>

\* The "Your Lane" buttons
setUserLane(lane) ==
  /\ includes(LANES, lane)
  /\ userLane' = lane
  /\ UNCHANGED <<heroes, banned, enemy, team, recommendations,
                 teamAnalysis, loading, searchQuery, toasts, req>>

(***************************************************************************)
(* The handlers that edit the draft.                                       *)
(***************************************************************************)
\* alreadySelected without the look into enemy
alreadySelected_noEnemy(heroName) ==
  \/ includes(banned, heroName)
  \/ (\E h \in elements(team) : startsWith(h, heroName))

\* The check the three add handlers share: the hero is in banned, in enemy,
\* or some team entry starts with its name
alreadySelected(heroName) ==
  \/ includes(banned, heroName)
  \/ includes(enemy, heroName)
  \/ (\E h \in elements(team) : startsWith(h, heroName))

\* laneExists looking at the start of the entry instead of its end
laneExists_startsWith(lane) == (\E h \in elements(team) : startsWith(h, "-" \o lane))

\* Some team entry ends with "-lane"
laneExists(lane) == (\E h \in elements(team) : endsWith(h, "-" \o lane))

\* The toast of an unrecognised lane
laneInvalidMessage == "Lane tidak valid! Gunakan: " \o join(LANES, ", ")

\* What the user types as "hero lane" in the specifications below
TypedInputs == {"layla gold", "YIN  gold", "zed top", "zed gold", "yin",
                "zilong gold", "bane exp"}

\* The parts of a typed input: lower case, split at the spaces, the empty
\* parts dropped
teamInputParts(input) == SelectSeq(split(toLowerCase(input), " "), LAMBDA p : p # "")

\* teamInputParts of the typed inputs, computed once
teamInputPartsOf == [input \in TypedInputs |-> teamInputParts(input)]

\* teamInputError with the hero looked up before the lane is validated
teamInputError_heroFirst(input) ==
  LET parts == teamInputPartsOf[input] IN
    IF Len(parts) # 2
    THEN <<[message |-> "Format salah! Gunakan: hero lane (contoh: miya gold)",
            type |-> "warning"]>>
    ELSE LET heroName == parts[1]
             lane == parts[2]
         IN  IF ~(\E h \in elements(heroes) : toLowerCase(h) = heroName)
             THEN <<[message |-> "Hero tidak ditemukan!", type |-> "error"]>>
             ELSE IF ~includes(LANES, lane)
             THEN <<[message |-> laneInvalidMessage, type |-> "warning"]>>
             ELSE IF alreadySelected(heroName)
             THEN <<[message |-> "Hero sudah dipilih!", type |-> "warning"]>>
             ELSE IF laneExists(lane)
             THEN <<[message |-> "Lane " \o lane \o " sudah ada! Pilih lane lain.",
                     type |-> "warning"]>>
             ELSE <<>>

\* The first check of handleTeamInput that the input fails, as the toast it
\* shows, or <<>> when the input passes them all. The checks run in this
\* order: two parts, a lane of LANES, a hero of the catalogue, not already
\* selected, the lane not taken.
teamInputError(input) ==
  LET parts == teamInputPartsOf[input] IN
    IF Len(parts) # 2
    THEN <<[message |-> "Format salah! Gunakan: hero lane (contoh: miya gold)",
            type |-> "warning"]>>
    ELSE LET heroName == parts[1]
             lane == parts[2]
         IN  IF ~includes(LANES, lane)
             THEN <<[message |-> laneInvalidMessage, type |-> "warning"]>>
             ELSE IF ~(\E h \in elements(heroes) : toLowerCase(h) = heroName)
             THEN <<[message |-> "Hero tidak ditemukan!", type |-> "error"]>>
             ELSE IF alreadySelected(heroName)
             THEN <<[message |-> "Hero sudah dipilih!", type |-> "warning"]>>
             ELSE IF laneExists(lane)
             THEN <<[message |-> "Lane " \o lane \o " sudah ada! Pilih lane lain.",
                     type |-> "warning"]>>
             ELSE <<>>

\* The team entry handleTeamInput adds for an input that passes the checks
teamInputEntry(input) ==
  LET parts == teamInputPartsOf[input]
  IN  parts[1] \o "-" \o parts[2]

handleTeamInput(input) ==
  /\ LET error == teamInputError(input) IN
       IF error # <<>>
       THEN /\ toastRoom
            /\ showToast(error[1].message, error[1].type)
            /\ UNCHANGED <<team, searchQuery>>
       ELSE /\ team' = Append(team, teamInputEntry(input))
            /\ searchQuery' = ""
            /\ UNCHANGED toasts
  /\ UNCHANGED <<heroes, banned, enemy, userLane, recommendations,
                 teamAnalysis, loading, req>>

addHeroWithLane(heroName, lane) ==
  /\ toastRoom
  /\ IF alreadySelected(heroName)
     THEN /\ showToast("Hero sudah dipilih!", "warning")
          /\ UNCHANGED <<team, searchQuery>>
     ELSE IF laneExists(lane)
     THEN /\ showToast("Lane " \o lane \o " sudah ada! Pilih lane lain.", "warning")
          /\ UNCHANGED <<team, searchQuery>>
     ELSE /\ team' = Append(team, heroName \o "-" \o lane)
          /\ searchQuery' = ""
          /\ showToast(heroName \o " added to team as " \o lane \o "!", "success")
  /\ UNCHANGED <<heroes, banned, enemy, userLane, recommendations,
                 teamAnalysis, loading, req>>

\* addHeroToList with the return after the duplicate toast missing
addHeroToList_noReturn(heroName, listType) ==
  /\ toastRoom
  /\ IF listType = "team"
     THEN /\ showToast(IF alreadySelected(heroName) THEN "Hero already selected!"
                       ELSE "Untuk team, ketik: hero lane (contoh: miya gold)",
                       IF alreadySelected(heroName) THEN "warning" ELSE "info")
          /\ UNCHANGED <<banned, enemy, searchQuery>>
     ELSE /\ IF listType = "banned"
             THEN banned' = Append(banned, heroName) /\ UNCHANGED enemy
             ELSE enemy' = Append(enemy, heroName) /\ UNCHANGED banned
          /\ showToast(IF alreadySelected(heroName) THEN "Hero already selected!"
                       ELSE heroName \o " added to " \o listType \o " list!",
                       IF alreadySelected(heroName) THEN "warning" ELSE "success")
          /\ searchQuery' = ""
  /\ UNCHANGED <<heroes, team, userLane, recommendations, teamAnalysis,
                 loading, req>>

addHeroToList(heroName, listType) ==
  /\ toastRoom
  /\ IF alreadySelected(heroName)
     THEN /\ showToast("Hero already selected!", "warning")
          /\ UNCHANGED <<banned, enemy, searchQuery>>
     ELSE IF listType = "team"
     THEN /\ showToast("Untuk team, ketik: hero lane (contoh: miya gold)", "info")
          /\ UNCHANGED <<banned, enemy, searchQuery>>
     ELSE /\ IF listType = "banned"
             THEN banned' = Append(banned, heroName) /\ UNCHANGED enemy
             ELSE enemy' = Append(enemy, heroName) /\ UNCHANGED banned
          /\ showToast(heroName \o " added to " \o listType \o " list!", "success")
          /\ searchQuery' = ""
  /\ UNCHANGED <<heroes, team, userLane, recommendations, teamAnalysis,
                 loading, req>>

removeHeroFromList(heroName, listType) ==
  /\ IF listType = "team"
     THEN /\ team' = SelectSeq(team, LAMBDA h : ~startsWith(h, heroName))
          /\ UNCHANGED <<banned, enemy>>
     ELSE IF listType = "banned"
     THEN /\ banned' = SelectSeq(banned, LAMBDA h : h # heroName)
          /\ UNCHANGED <<enemy, team>>
     ELSE /\ enemy' = SelectSeq(enemy, LAMBDA h : h # heroName)
          /\ UNCHANGED <<banned, team>>
  /\ UNCHANGED <<heroes, userLane, recommendations, teamAnalysis, loading,
                 searchQuery, toasts, req>>

resetDraft ==
  /\ banned' = <<>>
  /\ enemy' = <<>>
  /\ team' = <<>>
  /\ recommendations' = <<>>
  /\ teamAnalysis' = Null
  /\ UNCHANGED <<heroes, userLane, loading, searchQuery, toasts, req>>

(***************************************************************************)
(* What the page derives from the state when it renders.                   *)
(***************************************************************************)
\* The heroes the search box offers
filteredHeroes ==
  SelectSeq(heroes, LAMBDA hero :
    /\ strIncludes(toLowerCase(hero), toLowerCase(searchQuery))
    /\ ~includes(banned, hero)
    /\ ~includes(enemy, hero)
    /\ ~(\E h \in elements(team) : startsWith(h, hero)))

\* The lane shown for a team entry
getHeroLane(heroWithLane) ==
  LET parts == split(heroWithLane, "-")
  IN  IF Len(parts) > 1 THEN parts[2] ELSE ""

\* The hero name shown for a team entry, and passed to removeHeroFromList
\* by the entry's remove button
entryHeroName(heroWithLane) == split(heroWithLane, "-")[1]

(***************************************************************************)
(* Editing the draft: the catalogue, the search box, the add and remove    *)
(* handlers and the reset, with no request to the server.                  *)
(***************************************************************************)
\* A catalogue with a name that is a prefix of another and a name with '-'
CatalogueDraft == <<"yi", "yin", "lapu-lapu">>

\* What the user types into the search box
Queries == {"", "yi"}

ListTypes == {"banned", "enemy", "team"}

\* The names the remove buttons pass: a listed hero, or the first
\* '-'-separated part of a team entry
removeNames == elements(heroes) \cup {entryHeroName(team[i]) : i \in 1..Len(team)}

NextDraft ==
  \/ fetchHeroes(CatalogueDraft)
  \/ \E q \in Queries : setSearchQuery(q)
  \/ \E h \in elements(heroes), l \in elements(LANES) : addHeroWithLane(h, l)
  \/ \E h \in elements(heroes), t \in ListTypes : addHeroToList(h, t)
  \/ \E h \in removeNames, t \in ListTypes : removeHeroFromList(h, t)
  \/ resetDraft
  \/ toastExpire

SpecDraft == Init /\ [][NextDraft]_vars

(***************************************************************************)
(* getDraftRecommendations: the click, the server's answer, and the        *)
(* continuation after the await.  req holds the request in flight (at most *)
(* one: the button is disabled while loading): the body that was posted    *)
(* and, once the server has answered, the answer.                          *)
(***************************************************************************)
\* payload with enemy sent in the place of banned
payload_enemyTwice(b, e, t, lane) == [banned |-> e, enemy |-> e, team |-> t, user_lane |-> lane]

\* The body of the POST, built from the lists the handler sees
payload(b, e, t, lane) == [banned |-> b, enemy |-> e, team |-> t, user_lane |-> lane]

\* The click on "Get Recommendations" (disabled while loading): the part of
\* getDraftRecommendations before the await
getDraftRecommendations ==
  /\ ~loading
  /\ loading' = TRUE
  /\ req' = <<[payload |-> payload(banned, enemy, team, userLane), response |-> <<>>]>>
  /\ UNCHANGED <<heroes, banned, enemy, team, userLane, recommendations,
                 teamAnalysis, searchQuery, toasts>>

\* The heroes of the catalogue that a posted draft does not hold
candidates(p) ==
  SelectSeq(heroes, LAMBDA h :
    /\ ~includes(p.banned, h)
    /\ ~includes(p.enemy, h)
    /\ \A l \in elements(LANES) : ~includes(p.team, h \o "-" \o l))

\* The recommendations the server returns for a posted draft: every
\* candidate (the catalogue is shorter than the limit of ten)
serverRecommendations(p) ==
  [i \in 1..Len(candidates(p)) |-> [hero |-> candidates(p)[i]]]

\* team_analysis of an answer: omitted when the posted team is empty
serverTeamAnalysis(p) ==
  IF p.team = <<>> THEN Null
  ELSE <<[lane_validation |->
            [valid |-> \A l \in elements(LANES) :
                         (\E h \in elements(p.team) : endsWith(h, "-" \o l))]]>>

\* The answers the server may give to a posted draft: the recommendations,
\* a failure reported in the body (success = false and an error message),
\* an HTTP error with a detail, or no answer at all
serverAnswers(p) ==
  {[resolved |-> TRUE, success |-> TRUE,
    recommendations |-> serverRecommendations(p),
    team_analysis |-> serverTeamAnalysis(p), error |-> "", detail |-> ""],
   [resolved |-> TRUE, success |-> FALSE, recommendations |-> <<>>,
    team_analysis |-> Null, error |-> "Invalid draft", detail |-> ""],
   [resolved |-> FALSE, success |-> FALSE, recommendations |-> <<>>,
    team_analysis |-> Null, error |-> "", detail |-> "Hero not found"],
   [resolved |-> FALSE, success |-> FALSE, recommendations |-> <<>>,
    team_analysis |-> Null, error |-> "", detail |-> ""]}

\* The server answers the request in flight
serverAnswer ==
  /\ req # <<>>
  /\ req[1].response = <<>>
  /\ \E a \in serverAnswers(req[1].payload) :
       req' = <<[req[1] EXCEPT !.response = <<a>>]>>
  /\ UNCHANGED <<heroes, banned, enemy, team, userLane, recommendations,
                 teamAnalysis, loading, searchQuery, toasts>>

\* nextRecommendations adding the answer to the list on display
nextRecommendations_appended(shown, data) == shown \o data.recommendations

\* The list setRecommendations is given: the answer's, whatever is on display
nextRecommendations(shown, data) == data.recommendations

\* The same continuation with setLoading(false) at the end of the success
\* branch instead of in a finally block
getDraftRecommendationsResume_noFinally ==
  /\ req # <<>>
  /\ req[1].response # <<>>
  /\ LET response == req[1].response[1] IN
       IF response.resolved
       THEN IF response.success
            THEN /\ toastRoom
                 /\ recommendations' = nextRecommendations(recommendations, response)
                 /\ teamAnalysis' = response.team_analysis
                 /\ showToast("Recommendations loaded successfully!", "success")
                 /\ loading' = FALSE
            ELSE UNCHANGED <<recommendations, teamAnalysis, toasts, loading>>
       ELSE /\ toastRoom
            /\ showToast(IF response.detail # "" THEN response.detail
                         ELSE "Failed to get recommendations", "error")
            /\ UNCHANGED <<recommendations, teamAnalysis, loading>>
  /\ req' = <<>>
  /\ UNCHANGED <<heroes, banned, enemy, team, userLane, searchQuery>>

\* The part of getDraftRecommendations after the await: try, catch, finally
getDraftRecommendationsResume ==
  /\ req # <<>>
  /\ req[1].response # <<>>
  /\ LET response == req[1].response[1] IN
       IF response.resolved
       THEN IF response.success
            THEN /\ toastRoom
                 /\ recommendations' = nextRecommendations(recommendations, response)
                 /\ teamAnalysis' = response.team_analysis
                 /\ showToast("Recommendations loaded successfully!", "success")
            ELSE UNCHANGED <<recommendations, teamAnalysis, toasts>>
       ELSE /\ toastRoom
            /\ showToast(IF response.detail # "" THEN response.detail
                         ELSE "Failed to get recommendations", "error")
            /\ UNCHANGED <<recommendations, teamAnalysis>>
  /\ loading' = FALSE
  /\ req' = <<>>
  /\ UNCHANGED <<heroes, banned, enemy, team, userLane, searchQuery>>

(***************************************************************************)
(* The page: editing the draft and asking for recommendations.             *)
(***************************************************************************)
Catalogue == <<"yin", "lapu-lapu">>

\* The clicks of this specification: the lane of "Your Lane", the lane of
\* the team tab, and the search results picked on the banned and enemy
\* tabs (SpecDraft edits the lists with every hero and every lane)
UserLaneInputs == {"gold", "mid"}

TeamLaneInputs == {"gold"}

ListInputs == {<<"yin", "banned">>, <<"lapu-lapu", "enemy">>}

\* "+ Add to Team" on a displayed recommendation
addRecommendationToTeam ==
  \E i \in 1..Len(recommendations) : addHeroToList(recommendations[i].hero, "team")

Next ==
  \/ fetchHeroes(Catalogue)
  \/ \E l \in UserLaneInputs : setUserLane(l)
  \/ \E h \in elements(heroes), l \in TeamLaneInputs : addHeroWithLane(h, l)
  \/ \E c \in ListInputs : includes(heroes, c[1]) /\ addHeroToList(c[1], c[2])
  \/ addRecommendationToTeam
  \/ \E h \in removeNames, t \in ListTypes : removeHeroFromList(h, t)
  \/ resetDraft
  \/ getDraftRecommendations
  \/ serverAnswer
  \/ getDraftRecommendationsResume
  \/ toastExpire

Spec == Init /\ [][Next]_vars

(***************************************************************************)
(* The page with handleTeamInput, the handler of a typed "hero lane", and  *)
(* a catalogue whose names are not all lower case.                         *)
(***************************************************************************)
CatalogueInput == <<"Layla", "yin">>

\* What the user types
TeamInputs == {"layla gold", "YIN  gold", "zed top", "zed gold", "yin"}

\* The search results picked on the banned and enemy tabs
ListInputsInput == {<<"Layla", "banned">>, <<"Layla", "enemy">>}

NextInput ==
  \/ fetchHeroes(CatalogueInput)
  \/ \E input \in TeamInputs : handleTeamInput(input)
  \/ \E h \in elements(heroes), l \in TeamLaneInputs : addHeroWithLane(h, l)
  \/ \E c \in ListInputsInput : includes(heroes, c[1]) /\ addHeroToList(c[1], c[2])
  \/ addRecommendationToTeam
  \/ \E h \in removeNames, t \in ListTypes : removeHeroFromList(h, t)
  \/ resetDraft
  \/ getDraftRecommendations
  \/ serverAnswer
  \/ getDraftRecommendationsResume
  \/ toastExpire

SpecInput == Init /\ [][NextInput]_vars

(***************************************************************************)
(* Filling the team: six heroes for five lanes.                            *)
(***************************************************************************)
CatalogueLanes == <<"miya", "nana", "gord", "sun", "bane", "zilong">>

\* The picks of the team tab: five heroes with a lane each, and a sixth
\* hero tried on two lanes
LanePicks == {<<"miya", "gold">>, <<"nana", "mid">>, <<"gord", "roam">>,
              <<"sun", "jungle">>, <<"bane", "exp">>, <<"zilong", "exp">>}

\* What the user types: a sixth hero for a lane, a pick over again, an
\* unknown hero, and an unknown hero with an unrecognised lane
TeamInputsLanes == {"zilong gold", "bane exp", "zed gold", "zed top"}

NextLanes ==
  \/ fetchHeroes(CatalogueLanes)
  \/ \E c \in LanePicks : includes(heroes, c[1]) /\ addHeroWithLane(c[1], c[2])
  \/ \E input \in TeamInputsLanes : heroes # <<>> /\ handleTeamInput(input)
  \/ \E h \in {"zilong", "bane"} : removeHeroFromList(h, "team")
  \/ toastExpire

SpecLanes == Init /\ [][NextLanes]_vars

(***************************************************************************)
(* The properties.                                                         *)
(***************************************************************************)
\* Hero h has a team entry "h-lane" for one of the five lanes
onTeam(h) == \E l \in elements(LANES) : includes(team, h \o "-" \o l)

\* Hero h is in one of the three lists
selected(h) == includes(banned, h) \/ includes(enemy, h) \/ onTeam(h)

\* No element twice
noDuplicates(arr) == \A i, j \in 1..Len(arr) : i # j => arr[i] # arr[j]

\* A toast with this message is on display
toastShown(message) == \E i \in 1..Len(toasts) : toasts[i].message = message

\* The message of the toast a step shows, "" when it shows none
reported == IF Len(toasts') > Len(toasts) THEN toasts'[Len(toasts')].message ELSE ""

laneTakenMessage(lane) == "Lane " \o lane \o " sudah ada! Pilih lane lain."

\* C1 (SpecDraft): after any sequence of addHeroToList, addHeroWithLane,
\* removeHeroFromList and resetDraft calls with catalogue heroes, every entry
\* of the three lists is a catalogue hero (with a lane, on the team), no hero
\* is in two of the lists, and no hero is twice in one list.
C1_ListsDisjoint ==
  /\ elements(banned) \subseteq elements(heroes)
  /\ elements(enemy) \subseteq elements(heroes)
  /\ \A i \in 1..Len(team) :
       \E h \in elements(heroes), l \in elements(LANES) : team[i] = h \o "-" \o l
  /\ \A h \in elements(heroes) :
       /\ ~(includes(banned, h) /\ includes(enemy, h))
       /\ ~(includes(banned, h) /\ onTeam(h))
       /\ ~(includes(enemy, h) /\ onTeam(h))
       /\ Cardinality({i \in 1..Len(team) :
            \E l \in elements(LANES) : team[i] = h \o "-" \o l}) <= 1
  /\ noDuplicates(banned)
  /\ noDuplicates(enemy)
  /\ noDuplicates(team)

\* The three lists hold a hero each and an add was rejected as a duplicate
C1_Witness ==
  /\ banned # <<>> /\ enemy # <<>> /\ team # <<>>
  /\ toastShown("Hero already selected!")

\* C2 (SpecLanes): every team entry ends with one of the five lanes, each
\* lane ends at most one entry, and the team holds at most five entries.
C2_OneHeroPerLane ==
  /\ \A i \in 1..Len(team) : \E l \in elements(LANES) : endsWith(team[i], "-" \o l)
  /\ \A l \in elements(LANES) :
       Cardinality({i \in 1..Len(team) : endsWith(team[i], "-" \o l)}) <= 1
  /\ Len(team) <= 5

\* The five lanes are taken and a sixth pick was rejected for its lane
C2_Witness ==
  /\ Len(team) = 5
  /\ \E l \in elements(LANES) : toastShown(laneTakenMessage(l))

\* C3, as claimed (Spec): no displayed recommendation is a hero that is in
\* banned, in enemy or on the team.
C3_NoSelectedHeroRecommended ==
  \A i \in 1..Len(recommendations) : ~selected(recommendations[i].hero)

\* C3, amended (Spec): when the list on display changes to a list that is
\* not empty, it is the answer to the request in flight, and none of its
\* heroes is in banned, enemy or team of the draft that request posted.
C3_AnswerExcludesPostedDraft ==
  [][(recommendations' # recommendations /\ recommendations' # <<>>) =>
       /\ req # <<>>
       /\ \A i \in 1..Len(recommendations') :
            LET h == recommendations'[i].hero
                p == req[1].payload
            IN  /\ ~includes(p.banned, h)
                /\ ~includes(p.enemy, h)
                /\ \A l \in elements(LANES) : ~includes(p.team, h \o "-" \o l)]_vars

\* A recommendation is on display and its hero was put on a list afterwards
C3_Witness ==
  \E i \in 1..Len(recommendations) : selected(recommendations[i].hero)

\* C4, as claimed (Spec): when the continuation handles an answer with
\* success = false and an error message, it shows an error toast.
C4_FailureShown ==
  [][(/\ req # <<>>
      /\ req[1].response # <<>>
      /\ req[1].response[1].resolved
      /\ ~req[1].response[1].success
      /\ req[1].response[1].error # ""
      /\ req' = <<>>) =>
       /\ Len(toasts') = Len(toasts) + 1
       /\ toasts'[Len(toasts')].type = "error"]_vars

\* The messages of a rejected add
addRejections ==
  {"Hero sudah dipilih!", "Hero already selected!", "Hero tidak ditemukan!",
   "Format salah! Gunakan: hero lane (contoh: miya gold)", laneInvalidMessage}
  \cup {laneTakenMessage(l) : l \in elements(LANES)}

\* C5 (SpecInput): a step that shows the toast of a rejected add leaves
\* banned, enemy, team, recommendations and teamAnalysis as they were.
C5_RejectedAddChangesNothing ==
  [][(reported \in addRejections) =>
       (UNCHANGED <<banned, enemy, team, recommendations, teamAnalysis>>)]_vars

\* An add was rejected while lists and recommendations were not empty
C5_Witness ==
  /\ \E m \in addRejections : toastShown(m)
  /\ banned # <<>> /\ team # <<>>
  /\ recommendations # <<>> /\ teamAnalysis # Null

\* The hero of a typed "hero lane" is a catalogue hero, in any casing
typedHeroKnown(parts) == \E h \in elements(heroes) : toLowerCase(h) = parts[1]

\* The lane of a typed "hero lane" is one of the five
typedLaneValid(parts) == parts[2] \in elements(LANES)

\* C6, as claimed (SpecLanes): handleTeamInput reports an unknown hero
\* before an unrecognised lane, then a duplicate, then a taken lane.
C6_HeroBeforeLane ==
  [][\A input \in TeamInputsLanes :
       LET parts == teamInputPartsOf[input] IN
         (Len(parts) = 2 /\ handleTeamInput(input)) =>
           reported =
             IF ~typedHeroKnown(parts) THEN "Hero tidak ditemukan!"
             ELSE IF ~typedLaneValid(parts) THEN "Lane tidak valid! Gunakan: gold, jungle, roam, mid, exp"
             ELSE IF alreadySelected(parts[1]) THEN "Hero sudah dipilih!"
             ELSE IF laneExists(parts[2]) THEN laneTakenMessage(parts[2])
             ELSE ""]_vars

\* C6, amended (SpecLanes): handleTeamInput reports an unrecognised lane
\* before an unknown hero, then a duplicate, then a taken lane; an input with
\* an unknown hero and an unrecognised lane is reported as an invalid lane.
C6_LaneBeforeHero ==
  [][\A input \in TeamInputsLanes :
       LET parts == teamInputPartsOf[input] IN
         (Len(parts) = 2 /\ handleTeamInput(input)) =>
           reported =
             IF ~typedLaneValid(parts) THEN "Lane tidak valid! Gunakan: gold, jungle, roam, mid, exp"
             ELSE IF ~typedHeroKnown(parts) THEN "Hero tidak ditemukan!"
             ELSE IF alreadySelected(parts[1]) THEN "Hero sudah dipilih!"
             ELSE IF laneExists(parts[2]) THEN laneTakenMessage(parts[2])
             ELSE ""]_vars

\* The input with an unknown hero and an unrecognised lane (the only typed
\* input with an unrecognised lane) was reported
C6_Witness == toastShown("Lane tidak valid! Gunakan: gold, jungle, roam, mid, exp")

\* C7, as claimed (SpecDraft): the add handlers take a catalogue hero for
\* already selected exactly when it is in banned, in enemy or on the team,
\* and the search offers every hero that is in none of them and matches
\* the query.
C7_DuplicateCheckExact ==
  \A h \in elements(heroes) :
    /\ alreadySelected(h) <=> selected(h)
    /\ (~selected(h) /\ strIncludes(toLowerCase(h), toLowerCase(searchQuery)))
         => includes(filteredHeroes, h)

\* Hero h is in the list, or on the team, in some letter-casing
listedAnyCase(list, h) ==
  \E i \in 1..Len(list) : toLowerCase(list[i]) = toLowerCase(h)

onTeamAnyCase(h) ==
  \E i \in 1..Len(team), l \in elements(LANES) :
    toLowerCase(team[i]) = toLowerCase(h) \o "-" \o l

\* C8, as claimed (SpecInput): whatever the letter-casing, a catalogue hero
\* is never on the team and in banned or enemy, nor twice on the team.
C8_OneListWhateverTheCase ==
  \A h \in elements(heroes) :
    /\ ~(onTeamAnyCase(h) /\ (listedAnyCase(banned, h) \/ listedAnyCase(enemy, h)))
    /\ Cardinality({i \in 1..Len(team) : \E l \in elements(LANES) :
         toLowerCase(team[i]) = toLowerCase(h) \o "-" \o l}) <= 1

\* C9 (Spec): the body posted by a click holds the banned, enemy and team
\* lists and the user lane of the page at the click, its user_lane is one of
\* the five lanes, and no step changes the body of the request in flight.
C9_PostedDraftIsThePage ==
  [][/\ (req = <<>> /\ req' # <<>>) =>
          /\ req'[1].payload.banned = banned
          /\ req'[1].payload.enemy = enemy
          /\ req'[1].payload.team = team
          /\ req'[1].payload.user_lane = userLane
          /\ req'[1].payload.user_lane \in elements(LANES)
     /\ (req # <<>> /\ req' # <<>>) => req'[1].payload = req[1].payload]_vars

\* A request is in flight and every list was edited since the click
C9_Witness ==
  /\ req # <<>>
  /\ req[1].payload.banned # <<>> /\ banned = <<>>
  /\ req[1].payload.enemy # enemy
  /\ req[1].payload.team # team
  /\ req[1].payload.user_lane # userLane

\* C10, as claimed (Spec): for every catalogue hero h and lane l, the entry
\* h-l decodes to h (the first '-'-separated part) and l (getHeroLane), and
\* every team entry of a posted draft decodes to one of the five lanes.
C10_EntryRoundTrips ==
  /\ \A h \in elements(heroes), l \in elements(LANES) :
       /\ entryHeroName(h \o "-" \o l) = h
       /\ getHeroLane(h \o "-" \o l) = l
  /\ req # <<>> =>
       \A i \in 1..Len(req[1].payload.team) :
         getHeroLane(req[1].payload.team[i]) \in elements(LANES)

\* C11, as claimed (Spec): a click on "+ Add to Team" of a displayed
\* recommendation whose hero is in none of banned, enemy and team leaves the
\* team with an entry for that hero.
C11_AddToTeamAdds ==
  [][\A i \in 1..Len(recommendations) :
       (/\ ~selected(recommendations[i].hero)
        /\ addHeroToList(recommendations[i].hero, "team"))
       => \E k \in 1..Len(team') :
            startsWith(team'[k], recommendations[i].hero \o "-")]_vars

\* The team entries of hero h: h-l for one of the five lanes l
entryOf(heroWithLane, h) ==
  \E l \in elements(LANES) : heroWithLane = h \o "-" \o l

\* C12, as claimed (SpecDraft): for every catalogue hero h on the team,
\* removeHeroFromList(h, 'team') removes the team entry of h and nothing
\* else, every other team entry (also one whose hero name starts with h)
\* and the banned and enemy lists staying as they were; removing a listed h
\* from banned or enemy removes h from that list and changes no other list.
C12_RemoveExactlyOne ==
  [][\A h \in elements(heroes) :
       /\ (onTeam(h) /\ removeHeroFromList(h, "team")) =>
            /\ team' = SelectSeq(team, LAMBDA e : ~entryOf(e, h))
            /\ banned' = banned /\ enemy' = enemy
       /\ (includes(banned, h) /\ removeHeroFromList(h, "banned")) =>
            /\ banned' = SelectSeq(banned, LAMBDA x : x # h)
            /\ enemy' = enemy /\ team' = team
       /\ (includes(enemy, h) /\ removeHeroFromList(h, "enemy")) =>
            /\ enemy' = SelectSeq(enemy, LAMBDA x : x # h)
            /\ banned' = banned /\ team' = team]_vars

(***************************************************************************)
(* The draft page without the remove buttons: a list shrinks by resetDraft *)
(* only, so a request in flight whose body holds a hero while banned,      *)
(* enemy and team are all empty was posted before the last reset.          *)
(***************************************************************************)
NextReset ==
  \/ fetchHeroes(Catalogue)
  \/ \E h \in elements(heroes), l \in TeamLaneInputs : addHeroWithLane(h, l)
  \/ \E c \in ListInputs : includes(heroes, c[1]) /\ addHeroToList(c[1], c[2])
  \/ addRecommendationToTeam
  \/ resetDraft
  \/ getDraftRecommendations
  \/ serverAnswer
  \/ getDraftRecommendationsResume
  \/ toastExpire

SpecReset == Init /\ [][NextReset]_vars

\* A request is in flight that was posted before the last reset, and no
\* hero was added since that reset
postedBeforeReset ==
  /\ req # <<>>
  /\ \/ req[1].payload.banned # <<>>
     \/ req[1].payload.enemy # <<>>
     \/ req[1].payload.team # <<>>
  /\ banned = <<>> /\ enemy = <<>> /\ team = <<>>

\* C13, as claimed (SpecReset): a resetDraft step leaves banned, enemy, team
\* and recommendations empty and teamAnalysis null; and while the request
\* in flight is one posted before the last reset (Get Recommendations is
\* disabled, so no click came since), no step makes recommendations or
\* teamAnalysis non-empty, the arrival of that request's response included.
C13_ResetStaysEmpty ==
  [][/\ resetDraft =>
          /\ banned' = <<>> /\ enemy' = <<>> /\ team' = <<>>
          /\ recommendations' = <<>> /\ teamAnalysis' = Null
     /\ postedBeforeReset =>
          (recommendations' = <<>> /\ teamAnalysis' = Null)]_vars

(***************************************************************************)
(* The request lifecycle under fair scheduling: a pending request is       *)
(* answered (it resolves or rejects), the continuation after the await     *)
(* runs, and the timer of a toast fires.  The continuation is strongly     *)
(* fair because here it waits for room in the bounded toast list, which    *)
(* other handlers can fill again and again.                                *)
(***************************************************************************)
NextLive ==
  \/ fetchHeroes(Catalogue)
  \/ \E c \in ListInputs : includes(heroes, c[1]) /\ addHeroToList(c[1], c[2])
  \/ resetDraft
  \/ getDraftRecommendations
  \/ serverAnswer
  \/ getDraftRecommendationsResume
  \/ toastExpire

SpecLive ==
  /\ Init /\ [][NextLive]_vars
  /\ WF_vars(serverAnswer)
  /\ SF_vars(getDraftRecommendationsResume)
  /\ WF_vars(toastExpire)

\* How the request in flight came out, "none" while it is pending
outcome ==
  IF req = <<>> \/ req[1].response = <<>> THEN "none"
  ELSE IF ~req[1].response[1].resolved THEN "thrown"
  ELSE IF req[1].response[1].success THEN "success"
  ELSE "failure"

\* C14 (SpecLive): whenever loading is true it is false again later, and so
\* after each outcome of a request: a response with success=true, a response
\* with success=false, and the request throwing; the Get Recommendations
\* button (disabled while loading) is then enabled again.
C14_LoadingEnds ==
  /\ loading ~> ~loading
  /\ \A o \in {"success", "failure", "thrown"} : (outcome = o) ~> ~loading

\* A request that threw has ended: its error toast is up and loading is false
C14_Witness ==
  /\ toastShown("Failed to get recommendations")
  /\ ~loading
  /\ req = <<>>

====
